---- MODULE Spec2Model ----
(***************************************************************************)
(* Model of disco.worker.classic.worker: Worker.run, Worker.map,           *)
(* Worker.reduce, Worker.sort, Worker.status_iter and ClassicFile.         *)
(***************************************************************************)
EXTENDS Integers, Sequences, FiniteSets, TLC

VARIABLES
    self,       \* the Worker's configuration mapping (self[...])
    task,       \* the task handed to Worker.run
    Task,       \* the module-level global Task
    pc,         \* position of the single thread of control inside run/map/reduce
    params,     \* the local `params` of Worker.run
    source,     \* the records the iterator wrapped by status_iter will yield
    pos,        \* how many records of source the wrapped iterator has yielded
    opened,     \* whether the task input has been opened (ClassicFile built)
    n,          \* the local n of the status_iter generator
    genDone,    \* the status_iter generator has finished
    recs,       \* the records of the current map call not yet routed
    bufs,       \* the local bufs of Worker.map: partition -> combiner buffer
    todo,       \* the items of bufs.items() the final loop has not visited yet
    sinks,      \* the output sinks task.output has handed out: partition -> records
    extOpen,    \* external-program resources are held
    trace,      \* the observable calls made so far, in order
    streams,    \* ClassicFile: the streams argument of __init__
    fpc,        \* ClassicFile: position inside __init__ / close
    fds,        \* ClassicFile: self.fds
    fd,         \* ClassicFile.__init__: the local fd
    size,       \* ClassicFile.__init__: the local size
    url,        \* ClassicFile.__init__: the local url
    left,       \* ClassicFile.close: how many handles reversed(self.fds) has yet to yield
    flog        \* ClassicFile: the stream and close calls made so far, in order

workerVars == <<self, task, Task, pc, params, source, pos, opened, n, genDone, recs,
                bufs, todo, sinks, extOpen, trace>>

fileVars == <<streams, fpc, fds, fd, size, url, left, flog>>

vars == <<workerVars, fileVars>>

(***************************************************************************)
(* Bounds of the model.                                                    *)
(***************************************************************************)
MaxInput == 3
MaxPartitions == 2
MaxInterval == 2
MaxStreams == 3

Keys == {"a", "b"}
InputRecords == {<<"a", 1>>, <<"b", 2>>}
ScenarioInput == <<<<"a", 1>>, <<"b", 2>>, <<"a", 3>>>>

NoFn == "None"
NoTask == [mode |-> "None"]
NoPartition == "<None>"
RunningVersion == "2.7"

RECURSIVE SeqsUpTo(_, _)
SeqsUpTo(S, len) ==
    IF len = 0 THEN {<<>>}
    ELSE LET shorter == SeqsUpTo(S, len - 1)
         IN  shorter \cup {Append(s, x) : s \in {t \in shorter : Len(t) = len - 1}, x \in S}

(***************************************************************************)
(* Events of the trace.                                                    *)
(***************************************************************************)
Ev(op, part, rs, cnt) == [op |-> op, part |-> part, recs |-> rs, n |-> cnt]

Has(op) == \E i \in 1..Len(trace) : trace[i].op = op

Count(op) == Cardinality({i \in 1..Len(trace) : trace[i].op = op})

(***************************************************************************)
(* The user-supplied functions a job may configure.                        *)
(***************************************************************************)
OtherKey(k) == IF k = "a" THEN "b" ELSE "a"

\* self['map'](entry, params): the records one map call produces
MapFn(fn, entry) ==
    CASE fn = "none"   -> <<>>
      [] fn = "fanout" -> <<entry, <<OtherKey(entry[1]), entry[2]>>>>
      [] OTHER         -> <<entry>>

\* self['combiner'](key, val, buf, isFinal, params): returned records and the buffer left
Combiner(fn, rec, buf, isFinal) ==
    CASE fn = "hold" ->
            IF isFinal THEN [out |-> buf, buf |-> buf]
            ELSE [out |-> <<>>, buf |-> Append(buf, rec)]
      [] fn = "spill" ->
            IF isFinal THEN [out |-> buf, buf |-> buf]
            ELSE IF buf = <<>> THEN [out |-> <<>>, buf |-> <<rec>>]
            ELSE [out |-> Append(buf, rec), buf |-> <<>>]
      [] OTHER ->
            IF isFinal THEN [out |-> <<>>, buf |-> buf]
            ELSE [out |-> <<rec>>, buf |-> buf]

MapFns == {"identity", "none", "fanout"}
CombinerFns == {"hold", "spill", "pass"}
InitFns == {"init", "peek"}
ReduceFns == {"echo2", "echo3", "sum2", "sum3", "first2", "first3"}

\* util.argcount(fn): the number of positional parameters fn declares
argcount(fn) == IF fn \in {"echo2", "sum2", "first2"} THEN 2 ELSE 3

\* what a reduce function does with the entry it has just read
ReduceOnItem(fn, item) == IF fn \in {"sum2", "sum3"} THEN <<>> ELSE <<item>>

\* what a reduce function outputs once its entries are exhausted
ReduceOnEnd(fn, count) == IF fn \in {"sum2", "sum3"} THEN <<<<"a", count>>>> ELSE <<>>

\* whether a reduce function returns without reading further entries
ReduceStops(fn) == fn \in {"first2", "first3"}

KeyLeq(k1, k2) == k1 = "a" \/ k2 = "b"

\* disk_sort: the records in ascending key order
RECURSIVE disk_sort(_)
disk_sort(s) ==
    IF s = <<>> THEN <<>>
    ELSE LET rest == disk_sort(Tail(s))
             x    == Head(s)
             le   == SelectSeq(rest, LAMBDA y : ~KeyLeq(x[1], y[1]))
             gt   == SelectSeq(rest, LAMBDA y : KeyLeq(x[1], y[1]))
         IN  le \o <<x>> \o gt

Digits == <<"0", "1", "2", "3", "4", "5", "6", "7", "8", "9">>

\* str(i) of a small non-negative integer
str(i) == IF i < 10 THEN Digits[i + 1] ELSE Digits[(i \div 10) + 1] \o Digits[(i % 10) + 1]

\* a dict with no keys; Put(d, k, v) is d after d[k] = v
EmptyMap == [k \in {} |-> <<>>]

Put(d, k, v) == [x \in DOMAIN d \cup {k} |-> IF x = k THEN v ELSE d[x]]

(***************************************************************************)
(* Worker.defaults and the configurations explored.                        *)
(***************************************************************************)
DefaultStatusInterval == 100000

Defaults ==
    [version |-> RunningVersion, map |-> "identity", reduce |-> NoFn,
     map_init |-> "init", reduce_init |-> "init", combiner |-> NoFn,
     partition |-> [k \in Keys |-> 0], partitions |-> 0, save |-> FALSE,
     sort |-> FALSE, merge_partitions |-> FALSE,
     params |-> "params", ext_params |-> "ext_params",
     status_interval |-> DefaultStatusInterval]

PartitionChoices ==
    {[partitions |-> p, partition |-> f] :
        p \in {0}, f \in {[k \in Keys |-> 0]}}
    \cup UNION {{[partitions |-> p, partition |-> f] : f \in [Keys -> 0..(p - 1)]} :
                  p \in 1..MaxPartitions}

\* map tasks exercising routing and combining
PartitionConfigs ==
    {[Defaults EXCEPT !.map = m, !.combiner = c,
                      !.partitions = pc0.partitions, !.partition = pc0.partition] :
        m \in MapFns, c \in CombinerFns \cup {NoFn}, pc0 \in PartitionChoices}

Inputs == SeqsUpTo(InputRecords, MaxInput) \cup {ScenarioInput}

ShortInputs == {i \in Inputs : Len(i) <= 1}

MapTask(input) == [mode |-> "map", taskid |-> 0, input |-> input, partitioned |-> FALSE]

ReduceTask(id, input, parted) ==
    [mode |-> "reduce", taskid |-> id, input |-> input, partitioned |-> parted]

\* map and reduce tasks exercising the progress reporter and the init hooks
ProgressConfigs ==
    {[Defaults EXCEPT !.status_interval = i, !.map_init = mi] :
        i \in 0..MaxInterval, mi \in InitFns}

ReduceConfigs ==
    {[Defaults EXCEPT !.status_interval = i, !.reduce_init = ri, !.reduce = r,
                      !.sort = so] :
        i \in {0, MaxInterval, DefaultStatusInterval}, ri \in InitFns, r \in ReduceFns,
        so \in BOOLEAN}

\* reduce tasks exercising the choice of the input partition
SelectorConfigs ==
    {[Defaults EXCEPT !.reduce = r, !.merge_partitions = mp] :
        r \in {"echo2", "echo3"}, mp \in BOOLEAN}

\* tasks exercising Worker.run: version check, external programs, save
RunConfigs ==
    {[Defaults EXCEPT !.version = v, !.map = m, !.reduce = r, !.save = sv,
                      !.partitions = p] :
        v \in {RunningVersion, "2.6"}, m \in {NoFn, "identity", "ext_dict"},
        r \in {NoFn, "echo2", "echo3", "ext_dict"}, sv \in BOOLEAN,
        p \in {0, MaxPartitions}}

Scenarios ==
    {[self |-> c, task |-> MapTask(i)] : c \in PartitionConfigs, i \in Inputs}
    \cup {[self |-> c, task |-> MapTask(i)] : c \in ProgressConfigs, i \in Inputs}
    \cup {[self |-> c, task |-> ReduceTask(0, i, FALSE)] : c \in ReduceConfigs, i \in Inputs}
    \cup {[self |-> c, task |-> ReduceTask(id, i, parted)] :
             c \in SelectorConfigs, id \in {0, 1}, i \in ShortInputs, parted \in BOOLEAN}
    \cup {s \in {[self |-> c, task |-> [mode |-> m, taskid |-> 0, input |-> i,
                                       partitioned |-> FALSE]] :
                   c \in RunConfigs, m \in {"map", "reduce"}, i \in ShortInputs} :
             s.self[s.task.mode] # NoFn}

\* ClassicFile(url, streams, params): fd=None, size=None
NoHandle == [id |-> 0, close |-> "none"]
NoSize == -1
TaskUrl == 0

Init ==
    /\ \E s \in Scenarios : self = s.self /\ task = s.task
    /\ Task = NoTask
    /\ pc = "start"
    /\ params = "unset"
    /\ source = <<>>
    /\ pos = 0
    /\ opened = FALSE
    /\ n = -1
    /\ genDone = FALSE
    /\ recs = <<>>
    /\ bufs = EmptyMap
    /\ todo = {}
    /\ sinks = EmptyMap
    /\ extOpen = FALSE
    /\ trace = <<>>
    /\ streams = <<>>
    /\ fpc = "idle"
    /\ fds = <<>>
    /\ fd = NoHandle
    /\ size = NoSize
    /\ url = TaskUrl
    /\ left = 0
    /\ flog = <<>>

(***************************************************************************)
(* Worker.run                                                              *)
(***************************************************************************)
IsExternal(fn) == fn = "ext_dict"

UsesExternalMap == IsExternal(self.map)

\* line 242: the function configured for the task's own mode is an external program
UsesExternal == IsExternal(self[task.mode])

VersionOkAlways == TRUE

\* line 234: the assertion on the Python version
VersionOk == self.version = RunningVersion

BoundTaskNone == NoTask

\* lines 232-233: the value the global Task is bound to
BoundTask == task

RunParamsOrdinary == self.params

\* lines 241-243: the params the pipeline is dispatched with
RunParams == IF UsesExternal THEN self.ext_params ELSE self.params

RunEnter ==
    /\ pc = "start"
    /\ Task' = BoundTask
    /\ IF ~VersionOk
       THEN /\ pc' = "raised"
            /\ trace' = Append(trace, Ev("raise", "AssertionError", <<>>, 0))
            /\ UNCHANGED <<self, params, extOpen>>
       ELSE /\ params' = RunParams
            /\ self' = IF UsesExternal
                       THEN [self EXCEPT ![task.mode] = "ext_" \o task.mode]
                       ELSE self
            /\ extOpen' = UsesExternal
            /\ trace' = trace \o (IF UsesExternal
                                  THEN <<Ev("prepare", task.mode, <<>>, 0)>> ELSE <<>>)
                              \o <<Ev("globalize", task.mode, <<>>, 0),
                                   Ev("dispatch", task.mode, <<>>, 0)>>
            /\ pc' = task.mode \o "_enter"
    /\ UNCHANGED <<task, source, pos, opened, n, genDone, recs, bufs, todo, sinks>>

RunReturn ==
    /\ pc \in {"map_done", "reduce_done"}
    /\ extOpen' = FALSE
    /\ trace' = Append(trace, Ev("ext_close", task.mode, <<>>, 0))
    /\ pc' = "done"
    /\ UNCHANGED <<self, task, Task, params, source, pos, opened, n, genDone, recs,
                   bufs, todo, sinks>>

(***************************************************************************)
(* status and Worker.status_iter                                           *)
(***************************************************************************)
\* events.Status(message).send() either returns (TRUE) or raises (FALSE)
SendOutcomes == BOOLEAN

StatusDueOffByOne(interval, idx) == interval # 0 /\ idx % interval = 0

StatusDueUnlessInterval(interval, idx) == interval = 0 \/ (idx + 1) % interval = 0

\* line 313: a periodic notification is due for the item with index idx
StatusDue(interval, idx) == interval # 0 /\ (idx + 1) % interval = 0

HasNextOnlyFirst(items, p) == p < Len(items) /\ p < 1

\* line 312: the wrapped iterator has another item after yielding p of them
HasNext(items, p) == p < Len(items)

Template == IF task.mode = "map" THEN "mapped" ELSE "reduced"

\* one next() on the status_iter generator: pre are the events of the caller that
\* precede it; control goes to itemPc with an item and to stopPc on StopIteration
GenNext(ok, pre, itemPc, stopPc) ==
    IF genDone
    THEN /\ pc' = stopPc
         /\ trace' = trace \o pre
         /\ UNCHANGED <<n, pos, genDone>>
    ELSE IF HasNext(source, pos)
    THEN LET idx  == n + 1
             item == source[pos + 1]
             due  == StatusDue(self.status_interval, idx)
         IN  /\ n' = idx
             /\ pos' = pos + 1
             /\ IF due /\ ~ok
                THEN /\ genDone' = TRUE
                     /\ pc' = "raised"
                     /\ trace' = trace \o pre
                                   \o <<Ev("status_fail", Template, <<>>, idx + 1)>>
                ELSE /\ genDone' = FALSE
                     /\ pc' = itemPc
                     /\ trace' = trace \o pre
                                   \o (IF due THEN <<Ev("status", Template, <<>>, idx + 1)>>
                                       ELSE <<>>)
                                   \o <<Ev("yield", Template, <<item>>, idx + 1)>>
    ELSE /\ genDone' = TRUE
         /\ UNCHANGED <<n, pos>>
         /\ IF ok
            THEN /\ pc' = stopPc
                 /\ trace' = trace \o pre \o <<Ev("status_done", Template, <<>>, n + 1)>>
            ELSE /\ pc' = "raised"
                 /\ trace' = trace \o pre \o <<Ev("status_fail", Template, <<>>, n + 1)>>

DiscardedSendsDone ==
    IF genDone THEN <<>> ELSE <<Ev("status_done", Template, <<>>, n + 1)>>

\* lines 312-316: what the progress iterator sends when its consumer drops it
\* while it is suspended at the yield: the status after the loop is not under a
\* finally, so nothing
Discarded == <<>>

\* the places where the next step of the thread pulls from the task input
Pulling ==
    \/ pc = "map_init" /\ self.map_init = "peek"
    \/ pc = "map_loop"
    \/ pc = "reduce_init" /\ self.reduce_init = "peek"
    \/ pc = "reduce_fn"

\* the first pull opens the input: ClassicFile applies the input streams, the last
\* of which is run's open_hook, which sends "Input is ..."
OpenInput ==
    /\ Pulling
    /\ ~opened
    /\ \E ok \in SendOutcomes :
          IF ok
          THEN /\ opened' = TRUE
               /\ trace' = trace \o <<Ev("open_input", task.mode, <<>>, 0),
                                      Ev("status_input", task.mode, <<>>, 0)>>
               /\ pc' = pc
          ELSE /\ opened' = FALSE
               /\ trace' = trace \o <<Ev("open_input", task.mode, <<>>, 0),
                                      Ev("status_fail", "input", <<>>, 0)>>
               /\ pc' = "raised"
    /\ UNCHANGED <<self, task, Task, params, source, pos, n, genDone, recs, bufs,
                   todo, sinks, extOpen>>

(***************************************************************************)
(* Worker.map                                                              *)
(***************************************************************************)
SaveWithReduce == self.save /\ self.partitions # 0 /\ self.reduce # NoFn

\* line 257
SaveWithoutReduce == self.save /\ self.partitions # 0 /\ self.reduce = NoFn

PartitionOfNone(key) == NoPartition

\* lines 267-269: the partition identifier of a map output key
PartitionOf(key) ==
    IF self.partitions # 0 THEN str(self.partition[key]) ELSE NoPartition

\* output(part).add(*record) for each record of out, in order
Write(part, out) == IF out = <<>> THEN sinks
                    ELSE Put(sinks, part,
                             (IF part \in DOMAIN sinks THEN sinks[part] ELSE <<>>) \o out)

Adds(part, out) == [i \in 1..Len(out) |-> Ev("add", part, <<out[i]>>, 0)]

RoutedBuffered(rec, part) ==
    IF self.combiner # NoFn
    THEN Combiner(self.combiner, rec,
                  IF part \in DOMAIN bufs THEN bufs[part] ELSE <<>>, FALSE)
    ELSE [out |-> <<>>, buf |-> <<rec>>]

\* lines 270-276: the records written for one map output record, and its buffer after
Routed(rec, part) ==
    IF self.combiner # NoFn
    THEN Combiner(self.combiner, rec,
                  IF part \in DOMAIN bufs THEN bufs[part] ELSE <<>>, FALSE)
    ELSE [out |-> <<rec>>, buf |-> <<>>]

FlushItemsNonEmpty == {part \in DOMAIN bufs : bufs[part] # <<>>}

\* line 277: bufs.items()
FlushItems == DOMAIN bufs

MapEnter ==
    /\ pc = "map_enter"
    /\ IF SaveWithoutReduce
       THEN /\ pc' = "raised"
            /\ trace' = Append(trace, Ev("raise", "NotImplementedError", <<>>, 0))
            /\ UNCHANGED <<source, n, genDone, bufs>>
       ELSE /\ pc' = "map_init"
            /\ trace' = Append(trace, Ev("task_input", "map", <<>>, 0))
            /\ source' = task.input
            /\ n' = -1
            /\ genDone' = FALSE
            /\ bufs' = EmptyMap
    /\ UNCHANGED <<self, task, Task, params, pos, opened, recs, todo, sinks, extOpen>>

MapInit ==
    /\ pc = "map_init"
    /\ IF self.map_init = "peek"
       THEN /\ opened
            /\ \E ok \in SendOutcomes :
                  GenNext(ok, <<Ev("map_init", "", <<>>, 0)>>, "map_loop", "map_loop")
       ELSE /\ pc' = "map_loop"
            /\ trace' = Append(trace, Ev("map_init", "", <<>>, 0))
            /\ UNCHANGED <<n, pos, genDone>>
    /\ UNCHANGED <<self, task, Task, params, source, opened, recs, bufs, todo, sinks,
                   extOpen>>

MapNext ==
    /\ pc = "map_loop"
    /\ opened
    /\ \E ok \in SendOutcomes : GenNext(ok, <<>>, "map_call", "map_flush")
    /\ todo' = IF pc' = "map_flush" THEN FlushItems ELSE todo
    /\ UNCHANGED <<self, task, Task, params, source, opened, recs, bufs, sinks, extOpen>>

EntryIndexRestarted == Count("map") + 1

\* lines 265-266: the entry handed to map is the item the iterator yielded last
EntryIndex == pos

MapCall ==
    /\ pc = "map_call"
    /\ recs' = MapFn(self.map, source[EntryIndex])
    /\ trace' = Append(trace, Ev("map", "", recs', EntryIndex))
    /\ pc' = IF recs' = <<>> THEN "map_loop" ELSE "map_recs"
    /\ UNCHANGED <<self, task, Task, params, source, pos, opened, n, genDone, bufs,
                   todo, sinks, extOpen>>

MapRecord ==
    /\ pc = "map_recs"
    /\ LET rec  == Head(recs)
           part == PartitionOf(rec[1])
           r    == Routed(rec, part)
       IN  /\ bufs' = IF self.combiner # NoFn THEN Put(bufs, part, r.buf) ELSE bufs
           /\ sinks' = Write(part, r.out)
           /\ trace' = trace
                         \o <<Ev("route", part, <<rec>>, 0)>>
                         \o (IF self.combiner # NoFn
                             THEN <<Ev("combine", part, r.out, 0)>> ELSE <<>>)
                         \o Adds(part, r.out)
    /\ recs' = Tail(recs)
    /\ pc' = IF recs' = <<>> THEN "map_loop" ELSE "map_recs"
    /\ UNCHANGED <<self, task, Task, params, source, pos, opened, n, genDone, todo,
                   extOpen>>

MapFlush ==
    /\ pc = "map_flush"
    /\ \E part \in todo :
          LET r == Combiner(self.combiner, <<>>, bufs[part], TRUE)
          IN  /\ sinks' = Write(part, r.out)
              /\ trace' = trace \o <<Ev("combine_final", part, r.out, 0)>>
                                \o Adds(part, r.out)
              /\ todo' = todo \ {part}
    /\ UNCHANGED <<self, task, Task, pc, params, source, pos, opened, n, genDone, recs,
                   bufs, extOpen>>

MapReturn ==
    /\ pc = "map_flush"
    /\ todo = {}
    /\ pc' = "map_done"
    /\ trace' = Append(trace, Ev("return", "map", <<>>, 0))
    /\ UNCHANGED <<self, task, Task, params, source, pos, opened, n, genDone, recs,
                   bufs, todo, sinks, extOpen>>

(***************************************************************************)
(* Worker.reduce and Worker.sort                                           *)
(***************************************************************************)
SelectorIgnoringMerge ==
    IF task.partitioned THEN str(task.taskid) ELSE NoPartition

\* lines 287-289: the partition handed to inputlist
Selector ==
    IF task.partitioned /\ ~self.merge_partitions THEN str(task.taskid) ELSE NoPartition

sortNever(input) == input

\* lines 302-307
sort(input) == IF self.sort THEN disk_sort(input) ELSE input

WritesReturnedUpTo3(fn) == argcount(fn) <= 3

\* line 296: the pipeline writes the records the reduce function returns
WritesReturned(fn) == argcount(fn) < 3

ReduceEnter ==
    /\ pc = "reduce_enter"
    /\ source' = sort(task.input)
    /\ n' = -1
    /\ genDone' = FALSE
    /\ sinks' = Put(sinks, NoPartition, <<>>)
    /\ trace' = trace \o <<Ev("inputlist", Selector, <<>>, 0),
                           Ev("output", NoPartition, <<>>, 0)>>
    /\ pc' = "reduce_init"
    /\ UNCHANGED <<self, task, Task, params, pos, opened, recs, bufs, todo, extOpen>>

ReduceInit ==
    /\ pc = "reduce_init"
    /\ IF self.reduce_init = "peek"
       THEN /\ opened
            /\ \E ok \in SendOutcomes :
                  GenNext(ok, <<Ev("reduce_init", "", <<>>, 0)>>, "reduce_call",
                          "reduce_call")
       ELSE /\ pc' = "reduce_call"
            /\ trace' = Append(trace, Ev("reduce_init", "", <<>>, 0))
            /\ UNCHANGED <<n, pos, genDone>>
    /\ UNCHANGED <<self, task, Task, params, source, opened, recs, bufs, todo, sinks,
                   extOpen>>

\* lines 296-300: the reduce function is called in one of its two forms
ReduceCall ==
    /\ pc = "reduce_call"
    /\ trace' = Append(trace, Ev("reduce", IF WritesReturned(self.reduce)
                                           THEN "entries,params"
                                           ELSE "entries,output,params", <<>>, 0))
    /\ pc' = "reduce_fn"
    /\ UNCHANGED <<self, task, Task, params, source, pos, opened, n, genDone, recs,
                   bufs, todo, sinks, extOpen>>

\* the reduce function reads its next entry
ReduceNext ==
    /\ pc = "reduce_fn"
    /\ opened
    /\ \E ok \in SendOutcomes : GenNext(ok, <<>>, "reduce_item", "reduce_end")
    /\ recs' = CASE pc' = "reduce_item" -> ReduceOnItem(self.reduce, source[pos'])
                  [] pc' = "reduce_end"  -> ReduceOnEnd(self.reduce, pos')
                  [] OTHER               -> recs
    /\ UNCHANGED <<self, task, Task, params, source, opened, bufs, todo, sinks, extOpen>>

\* lines 296-300: the records the reduce function has produced reach the sink, through
\* the pipeline's output.add (2 parameters) or the function's own (3 parameters)
ReduceOut ==
    /\ pc \in {"reduce_item", "reduce_end"}
    /\ sinks' = Write(NoPartition, recs)
    /\ trace' = trace
                  \o (IF recs # <<>> THEN <<Ev("produce", "reduce", recs, 0)>> ELSE <<>>)
                  \o (IF WritesReturned(self.reduce)
                      THEN Adds(NoPartition, recs)
                      ELSE [i \in 1..Len(recs) |-> Ev("fn_add", NoPartition, <<recs[i]>>, 0)])
                  \o (IF pc = "reduce_end" \/ ReduceStops(self.reduce)
                      THEN <<Ev("return", "reduce", <<>>, 0)>> ELSE <<>>)
                  \o (IF pc = "reduce_item" /\ ReduceStops(self.reduce)
                      THEN Discarded ELSE <<>>)
    /\ recs' = <<>>
    /\ pc' = IF pc = "reduce_end" \/ ReduceStops(self.reduce)
             THEN "reduce_done" ELSE "reduce_fn"
    /\ UNCHANGED <<self, task, Task, params, source, pos, opened, n, genDone, bufs,
                   todo, extOpen>>

(***************************************************************************)
(* Errors raised by the user-supplied functions                            *)
(***************************************************************************)
\* the user-supplied functions the next step of the thread calls
Callees ==
    CASE pc = "map_init" -> {"map_init"}
      [] pc = "map_call" -> {"map"}
      [] pc = "map_recs" -> {"map"}
                            \cup (IF self.partitions # 0 THEN {"partition"} ELSE {})
                            \cup (IF self.combiner # NoFn THEN {"combiner"} ELSE {})
      [] pc = "map_flush" -> IF todo # {} THEN {"combiner"} ELSE {}
      [] pc = "reduce_init" -> {"reduce_init"}
      [] pc \in {"reduce_call", "reduce_fn", "reduce_item", "reduce_end"} -> {"reduce"}
      [] OTHER -> {}

UserRaise ==
    /\ \E who \in Callees :
          trace' = trace \o <<Ev("raise", who, <<>>, 0)>> \o Discarded
    /\ pc' = "raised"
    /\ UNCHANGED <<self, task, Task, params, source, pos, opened, n, genDone, recs,
                   bufs, todo, sinks, extOpen>>

Next ==
    \/ RunEnter /\ UNCHANGED fileVars
    \/ OpenInput /\ UNCHANGED fileVars
    \/ MapEnter /\ UNCHANGED fileVars
    \/ MapInit /\ UNCHANGED fileVars
    \/ MapNext /\ UNCHANGED fileVars
    \/ MapCall /\ UNCHANGED fileVars
    \/ MapRecord /\ UNCHANGED fileVars
    \/ MapFlush /\ UNCHANGED fileVars
    \/ MapReturn /\ UNCHANGED fileVars
    \/ ReduceEnter /\ UNCHANGED fileVars
    \/ ReduceInit /\ UNCHANGED fileVars
    \/ ReduceCall /\ UNCHANGED fileVars
    \/ ReduceNext /\ UNCHANGED fileVars
    \/ ReduceOut /\ UNCHANGED fileVars
    \/ UserRaise /\ UNCHANGED fileVars
    \/ RunReturn /\ UNCHANGED fileVars

Spec == Init /\ [][Next]_vars

(***************************************************************************)
(* ClassicFile                                                             *)
(***************************************************************************)
\* a stream function: how many parameters it declares, the shape of what it returns
\* and what the handle it returns does on close ("none": it has no close attribute)
StreamFns ==
    {[argc |-> a.argc, shape |-> a.shape, close |-> c] :
        a \in {[argc |-> 3, shape |-> "plain"], [argc |-> 4, shape |-> "triple"],
               [argc |-> 3, shape |-> "pair"], [argc |-> 4, shape |-> "plain"]},
        c \in {"none", "ok", "raises"}}

FileInit ==
    /\ streams \in SeqsUpTo(StreamFns, MaxStreams)
    /\ fpc = "init"
    /\ fds = <<>>
    /\ fd = NoHandle
    /\ size = NoSize
    /\ url = TaskUrl
    /\ left = 0
    /\ flog = <<>>
    /\ self = Defaults
    /\ task = MapTask(<<>>)
    /\ Task = NoTask
    /\ pc = "idle"
    /\ params = self.params
    /\ source = <<>>
    /\ pos = 0
    /\ opened = FALSE
    /\ n = -1
    /\ genDone = FALSE
    /\ recs = <<>>
    /\ bufs = EmptyMap
    /\ todo = {}
    /\ sinks = EmptyMap
    /\ extOpen = FALSE
    /\ trace = <<>>

PassesParamsAlways(stream) == stream.argc >= 3

\* line 338
PassesParams(stream) == stream.argc = 4

SizeAfterAnyTuple(stream, i) == IF stream.shape \in {"triple", "pair"} THEN i ELSE size

\* lines 340-344: the size after stage i returned
SizeAfter(stream, i) == IF stream.shape = "triple" THEN i ELSE size

\* lines 340-344: the url after stage i returned
UrlAfter(stream, i) == IF stream.shape \in {"triple", "pair"} THEN i ELSE url

\* lines 337-345: one iteration of the loop over streams
FileStream ==
    /\ fpc = "init"
    /\ Len(fds) < Len(streams)
    /\ LET i      == Len(fds) + 1
           stream == streams[i]
           handle == [id |-> i, close |-> stream.close]
       IN  /\ flog' = Append(flog, [op |-> "stream", id |-> i, fd |-> fd.id, size |-> size,
                                    url |-> url, params |-> PassesParams(stream)])
           /\ fd' = handle
           /\ size' = SizeAfter(stream, i)
           /\ url' = UrlAfter(stream, i)
           /\ fds' = Append(fds, handle)
    /\ UNCHANGED <<streams, fpc, left>>

FileOpened ==
    /\ fpc = "init"
    /\ Len(fds) = Len(streams)
    /\ fpc' = "open"
    /\ UNCHANGED <<streams, fds, fd, size, url, left, flog>>

\* line 351: close() starts the loop over reversed(self.fds)
CloseBegin ==
    /\ fpc = "open"
    /\ fpc' = "closing"
    /\ left' = Len(fds)
    /\ UNCHANGED <<streams, fds, fd, size, url, flog>>

\* lines 351-353: one iteration of the loop; a close that raises ends close()
CloseStep ==
    /\ fpc = "closing"
    /\ left > 0
    /\ LET h == fds[left]
       IN  /\ flog' = IF h.close # "none"
                      THEN Append(flog, [op |-> "close", id |-> h.id, fd |-> h.id,
                                         size |-> 0, url |-> 0, params |-> FALSE])
                      ELSE flog
           /\ fpc' = IF h.close = "raises" THEN "close_raised" ELSE "closing"
    /\ left' = left - 1
    /\ UNCHANGED <<streams, fds, fd, size, url>>

CloseReturn ==
    /\ fpc = "closing"
    /\ left = 0
    /\ fpc' = "closed"
    /\ UNCHANGED <<streams, fds, fd, size, url, left, flog>>

FileNext ==
    \/ FileStream /\ UNCHANGED workerVars
    \/ FileOpened /\ UNCHANGED workerVars
    \/ CloseBegin /\ UNCHANGED workerVars
    \/ CloseStep /\ UNCHANGED workerVars
    \/ CloseReturn /\ UNCHANGED workerVars

SpecFile == FileInit /\ [][FileNext]_vars

(***************************************************************************)
(* Properties                                                              *)
(***************************************************************************)
Idx == 1..Len(trace)

Where(op) == {i \in Idx : trace[i].op = op}

Events(op) == SelectSeq(trace, LAMBDA e : e.op = op)

RECURSIVE RecsOf(_)
RecsOf(evs) == IF evs = <<>> THEN <<>> ELSE Head(evs).recs \o RecsOf(Tail(evs))

\* the entries the progress reporter had yielded when event i happened
YieldsBefore(i) == Cardinality({j \in 1..i : trace[j].op = "yield"})

\* the records event i returned are added to its partition's sink right after it
WrittenAfter(i) ==
    \A j \in 1..Len(trace[i].recs) :
        /\ i + j <= Len(trace)
        /\ trace[i + j] = Ev("add", trace[i].part, <<trace[i].recs[j]>>, 0)

IsSuffix(t, whole) ==
    /\ Len(t) <= Len(whole)
    /\ SubSeq(whole, Len(whole) - Len(t) + 1, Len(whole)) = t

SinkOf(part) == IF part \in DOMAIN sinks THEN sinks[part] ELSE <<>>

\* each sink holds exactly the records added to it, in the order of the adds
SinksAgree ==
    /\ \A i \in Where("add") \cup Where("fn_add") : trace[i].part \in DOMAIN sinks
    /\ \A part \in DOMAIN sinks :
          sinks[part] = RecsOf(SelectSeq(trace, LAMBDA e : e.op \in {"add", "fn_add"}
                                                            /\ e.part = part))

MapWithCombiner == task.mode = "map" /\ self.combiner # NoFn

\* the partitions to which at least one map output record was routed
Touched == {trace[i].part : i \in Where("combine")}

FinalCalls(part) == {i \in Where("combine_final") : trace[i].part = part}

\* C1: in a map run with a combiner, no partition ever gets two isFinal=true combiner
\* calls, the records a final call returns are written to that partition's sink, and
\* once map() has returned every partition a record was routed to has had exactly one
\* final call, made before the return.
C1_FinalFlush ==
    MapWithCombiner =>
        /\ \A i \in Where("combine_final") :
              /\ trace[i].part \in Touched
              /\ Cardinality(FinalCalls(trace[i].part)) = 1
              /\ WrittenAfter(i)
              /\ IsSuffix(trace[i].recs, SinkOf(trace[i].part))
        /\ \A r \in Where("return") :
              \A part \in Touched : \E i \in FinalCalls(part) : i < r

C1_Witness ==
    /\ MapWithCombiner
    /\ pc = "done"
    /\ Cardinality(Touched) >= 2
    /\ \E i \in Where("combine_final") : trace[i].recs # <<>>
    /\ \E i \in Where("combine_final") : trace[i].recs = <<>>

\* C2: once close() of a ClassicFile built from three streams has ended, close was
\* invoked on every handle that has a close operation, in the reverse of the order of
\* construction, whether or not one of the closes raised.
C2_CloseAll ==
    (Len(streams) = 3 /\ fpc \in {"closed", "close_raised"}) =>
        LET closable == SelectSeq(fds, LAMBDA h : h.close # "none")
            closes   == SelectSeq(flog, LAMBDA e : e.op = "close")
        IN  /\ Len(closes) = Len(closable)
            /\ \A j \in 1..Len(closes) : closes[j].id = closable[Len(closable) + 1 - j].id

\* C3: once Worker.run has left a pipeline it dispatched, by returning or by an error,
\* external.close has been called and no external-program resources are held.
C3_ExternalReleased ==
    (Has("dispatch") /\ pc \in {"done", "raised"}) => (Has("ext_close") /\ ~extOpen)

\* C4: for a report interval >= 1, once the progress reporter has been consumed to
\* exhaustion over total items it has sent exactly floor(total/interval) periodic
\* notifications, with counts interval, 2*interval, ..., then exactly one final
\* notification carrying total, and it has yielded the items unchanged and in order.
C4_Notifications ==
    (self.status_interval >= 1 /\ Has("status_done")) =>
        LET total    == Len(source)
            periodic == Events("status")
        IN  /\ Len(periodic) = total \div self.status_interval
            /\ \A j \in 1..Len(periodic) : periodic[j].n = j * self.status_interval
            /\ Count("status_done") = 1
            /\ \A d \in Where("status_done") :
                  /\ trace[d].n = total
                  /\ \A i \in Where("status") \cup Where("yield") : i < d
            /\ RecsOf(Events("yield")) = source
            /\ task.mode = "map" => source = task.input

C4_Witness ==
    /\ Has("status_done")
    /\ self.status_interval = 2
    /\ Len(source) = 3
    /\ pc = "done"

\* C5: in a reduce run, a reduce function declaring 2 parameters is called as
\* reduce(entries, params) and the pipeline adds each record it returns to the sink,
\* once and in order; one declaring 3 parameters is called as
\* reduce(entries, sink, params) and the pipeline adds nothing itself.
C5_ReduceDispatch ==
    (task.mode = "reduce" /\ Has("reduce")) =>
        IF argcount(self.reduce) = 2
        THEN /\ \A i \in Where("reduce") : trace[i].part = "entries,params"
             /\ Count("fn_add") = 0
             /\ RecsOf(Events("add")) = RecsOf(Events("produce"))
             /\ SinkOf(NoPartition) = RecsOf(Events("produce"))
        ELSE /\ argcount(self.reduce) = 3
             /\ \A i \in Where("reduce") : trace[i].part = "entries,output,params"
             /\ Count("add") = 0

C5_Witness ==
    /\ task.mode = "reduce"
    /\ pc = "done"
    /\ argcount(self.reduce) = 2
    /\ Count("add") >= 2

\* C6: in a map run without a combiner, the records written so far followed by the
\* records of the current map call still to be routed are exactly the records the map
\* function has produced, in order; each sink holds exactly what was added to it; with
\* no partitioning everything is in the single unpartitioned sink; and a finished run of
\* an identity map with the default map_init leaves exactly the input in that sink.
C6_DirectWrite ==
    (task.mode = "map" /\ self.combiner = NoFn) =>
        LET written == RecsOf(Events("add"))
        IN  /\ RecsOf(Events("map")) = written \o recs
            /\ SinksAgree
            /\ self.partitions = 0 =>
                  /\ DOMAIN sinks \subseteq {NoPartition}
                  /\ SinkOf(NoPartition) = written
            /\ (/\ self.partitions = 0
                /\ self.map = "identity"
                /\ self.map_init = "init"
                /\ pc \in {"map_done", "done"}) => SinkOf(NoPartition) = task.input

C6_Witness ==
    /\ task.mode = "map"
    /\ self.combiner = NoFn
    /\ self.partitions = 0
    /\ self.map = "identity"
    /\ task.input = ScenarioInput
    /\ pc = "done"
    /\ SinkOf(NoPartition) = ScenarioInput

\* the partition identifier the configuration assigns to a key
Expected(key) ==
    IF self.partitions = 0 THEN NoPartition
    ELSE CASE self.partition[key] = 0 -> "0"
           [] self.partition[key] = 1 -> "1"
           [] self.partition[key] = 2 -> "2"
           [] OTHER -> "3"

\* the routing or final combiner call that an add at i follows
Origin(i) ==
    CHOOSE j \in 1..i :
        /\ trace[j].op \in {"route", "combine_final"}
        /\ \A k \in (j + 1)..i : trace[k].op \notin {"route", "combine_final"}

\* C7: in a map run every map output record is routed to the partition identifier
\* computed from its key (the unpartitioned identifier when no partition count is
\* set), a combiner call gets the buffer of that partition, and every sink write goes
\* to the sink of the partition of the record or final combiner call that caused it.
C7_Routing ==
    task.mode = "map" =>
        /\ \A i \in Where("route") : trace[i].part = Expected(trace[i].recs[1][1])
        /\ \A i \in Where("combine") :
              /\ trace[i - 1].op = "route"
              /\ trace[i - 1].part = trace[i].part
        /\ \A i \in Where("add") :
              /\ \E j \in 1..i : trace[j].op \in {"route", "combine_final"}
              /\ trace[i].part = trace[Origin(i)].part
        /\ SinksAgree

C7_Witness ==
    /\ task.mode = "map"
    /\ self.combiner # NoFn
    /\ self.partitions = 2
    /\ pc = "done"
    /\ SinkOf("0") # <<>>
    /\ SinkOf("1") # <<>>
    /\ \E i \in Where("combine") : trace[i].recs # <<>>

\* C8 as stated: in a map run with a combiner no sink write happens while an input
\* entry is still unread.
C8_NoWriteBeforeEnd ==
    MapWithCombiner => \A i \in Where("add") : YieldsBefore(i) = Len(task.input)

\* C8 amended: in a map run with a combiner the final (isFinal=true) combiner calls and
\* the writes of the records they return happen only after all input has been
\* consumed, while the records a non-final combiner call returns are written at once.
C8_FinalWritesAfterInput ==
    MapWithCombiner =>
        /\ \A i \in Where("combine_final") :
              /\ YieldsBefore(i) = Len(task.input)
              /\ genDone
        /\ \A i \in Where("add") :
              trace[Origin(i)].op = "combine_final" => YieldsBefore(i) = Len(task.input)
        /\ \A i \in Where("combine") : WrittenAfter(i)

C8_Witness ==
    /\ MapWithCombiner
    /\ pc = "done"
    /\ \E i \in Where("combine") :
          trace[i].recs # <<>> /\ YieldsBefore(i) < Len(task.input)
    /\ \E i \in Where("combine_final") : trace[i].recs # <<>>

SaveRequestedWithoutReduce ==
    /\ task.mode = "map"
    /\ self.save
    /\ self.partitions # 0
    /\ self.reduce = NoFn
    /\ Has("dispatch")
    /\ pc # "map_enter"

\* C9: a map pipeline entered with save and a partition count and no reduce function
\* ends at once with NotImplementedError: the task input is never requested or
\* opened, map_init and map never run, no entry is read and no sink is created or
\* written.
C9_FailFast ==
    SaveRequestedWithoutReduce =>
        /\ pc = "raised"
        /\ trace[Len(trace)] = Ev("raise", "NotImplementedError", <<>>, 0)
        /\ \A i \in Idx : trace[i].op \in {"prepare", "globalize", "dispatch", "raise"}
        /\ sinks = EmptyMap
        /\ ~opened
        /\ pos = 0

C9_Witness == SaveRequestedWithoutReduce /\ pc = "raised"

\* C10: a status notification that could not be sent never makes the task fail.
C10_StatusNeverFails == Has("status_fail") => pc # "raised"

\* the Stream Chains the pipeline has opened: the input chain and one chain for
\* every output sink
ChainsOpened == (IF opened THEN {"input"} ELSE {}) \cup DOMAIN sinks

\* the Stream Chains a close was called on
ChainsClosed == {trace[i].part : i \in Where("close")}

PipelineExited == Has("dispatch") /\ pc \in {"map_done", "reduce_done", "done", "raised"}

\* C11: when a map or reduce pipeline has exited, by returning or by raising,
\* every Stream Chain it opened has been closed.
C11_ChainsClosedOnExit == PipelineExited => ChainsOpened \subseteq ChainsClosed

VersionMismatch == self.version # RunningVersion /\ pc # "start"

\* C12: when the configured version is not the running one, Worker.run ends with
\* the AssertionError and nothing else has happened: no external program is
\* prepared, nothing is bound, no params are resolved, no input is opened, no
\* entry is read, no user function is called and no sink is created.
C12_VersionMismatchAborts ==
    VersionMismatch =>
        /\ pc = "raised"
        /\ trace = <<Ev("raise", "AssertionError", <<>>, 0)>>
        /\ ~extOpen
        /\ self[task.mode] \notin {"ext_map", "ext_reduce"}
        /\ params = "unset"
        /\ ~opened
        /\ pos = 0
        /\ n = -1
        /\ sinks = EmptyMap
        /\ bufs = EmptyMap

C12_Witness == VersionMismatch /\ pc = "raised" /\ self[task.mode] = "ext_dict"

RunOver == pc \in {"done", "raised"}

\* C13 as stated: once Worker.run has returned or raised, the module holds no
\* reference to the task.
C13_TaskReleased == RunOver => Task = NoTask

\* C13: from the entry to Worker.run onward the global Task is bound to the task
\* of the run, and it stays bound after the run has returned or raised.
C13_TaskRetained == pc # "start" => Task = task

C13_Witness == RunOver /\ Task = task /\ Has("ext_close")

\* C14 as stated: no step of a run changes the Configuration mapping.
C14_ConfigurationImmutable == [][self' = self]_vars

\* line 244 as the only change: the entry of the task's own mode, an external
\* program, becomes the prepared handle
OwnModePrepared ==
    /\ pc = "start"
    /\ self[task.mode] = "ext_dict"
    /\ self' = [self EXCEPT ![task.mode] = "ext_" \o task.mode]

\* C14: the only step of a run that changes the Configuration mapping is the
\* entry to Worker.run of a task whose own mode is configured as an external
\* program, and it replaces that one entry by the prepared handle; every other
\* entry, and every entry of a native configuration, keeps its value.
C14_OnlyOwnModeReplaced == [][self' = self \/ OwnModePrepared]_vars

C14_Witness ==
    /\ pc = "done"
    /\ task.mode = "reduce"
    /\ self.reduce = "ext_reduce"
    /\ self.map = "ext_dict"

\* C19: Worker.run resolves the params by the function of the task's own mode
\* alone: if it is an external program, the pipeline runs with ext_params, the
\* program is prepared and its handle stands in for the function; if not, the
\* pipeline runs with params, nothing is prepared and the configuration is
\* left alone.  The params stay the same for the rest of the run.
C19_ParamsResolution ==
    [][/\ (pc = "start" /\ pc' # "raised") =>
            IF self[task.mode] = "ext_dict"
            THEN /\ params' = self.ext_params
                 /\ self'[task.mode] = "ext_" \o task.mode
                 /\ extOpen'
                 /\ \E i \in 1..Len(trace') : trace'[i] = Ev("prepare", task.mode, <<>>, 0)
            ELSE /\ params' = self.params
                 /\ self' = self
                 /\ ~extOpen'
                 /\ \A i \in 1..Len(trace') : trace'[i].op # "prepare"
       /\ pc # "start" => (params' = params /\ (extOpen' => extOpen))]_vars

C19_Witness ==
    /\ pc = "done"
    /\ task.mode = "reduce"
    /\ self.reduce = "ext_reduce"
    /\ self.map = "identity"
    /\ params = self.ext_params
    /\ Has("prepare")

\* C15: the partition Worker.reduce hands to the input list is the task's own id,
\* as a string, exactly when the inputs are partitioned and merge_partitions is
\* not set; in every other case it is None.
C15_PartitionSelector ==
    \A i \in Where("inputlist") :
        trace[i].part = IF task.partitioned /\ ~self.merge_partitions
                        THEN Digits[task.taskid + 1]
                        ELSE NoPartition

C15_Witness ==
    /\ Has("inputlist")
    /\ task.partitioned
    /\ ~self.merge_partitions
    /\ task.taskid = 1
    /\ pc = "done"

Ascending(s) == \A i, j \in 1..Len(s) : i < j => KeyLeq(s[i][1], s[j][1])

Occurrences(s, r) == Cardinality({i \in 1..Len(s) : s[i] = r})

SameRecords(s, t) ==
    /\ Len(s) = Len(t)
    /\ \A i \in 1..Len(s) : Occurrences(s, s[i]) = Occurrences(t, s[i])

\* C16: in a reduce run with sort set, the entries handed to reduce_init and
\* reduce are the records of the input in ascending key order, the same records
\* as many times each; with sort not set they are the input sequence itself, in
\* its order.
C16_SortedEntries ==
    (task.mode = "reduce" /\ Has("inputlist")) =>
        /\ IF self.sort
           THEN Ascending(source) /\ SameRecords(source, task.input)
           ELSE source = task.input
        /\ Count("yield") <= Len(source)
        /\ RecsOf(Events("yield")) = SubSeq(source, 1, Count("yield"))

C16_Witness ==
    /\ task.mode = "reduce"
    /\ self.sort
    /\ ~Ascending(task.input)
    /\ Len(task.input) = MaxInput
    /\ Count("yield") = Len(task.input)
    /\ pc = "done"

\* C17: when status_interval is 0, or when the iterator has no item, a progress
\* iterator that ran to its end has sent exactly one notification, the final
\* one, after every item, and it carries the number of items, 0 if there was
\* none.
C17_SingleFinalNotification ==
    (Has("status_done") /\ (self.status_interval = 0 \/ Len(source) = 0)) =>
        /\ Count("status") = 0
        /\ Count("status_done") = 1
        /\ Count("yield") = Len(source)
        /\ \A d \in Where("status_done") :
              /\ trace[d].n = Len(source)
              /\ \A i \in Where("yield") : i < d

C17_Witness ==
    /\ self.status_interval = 0
    /\ Len(source) = MaxInput
    /\ Has("status_done")
    /\ pc = "done"

C17_NoItems ==
    /\ self.status_interval = MaxInterval
    /\ Len(source) = 0
    /\ Has("status_done")

StreamCalls == SelectSeq(flog, LAMBDA e : e.op = "stream")

\* the last stage before stage j whose result is of one of the shapes, 0 if none
LastStage(j, shapes) ==
    LET S == {k \in 1..(j - 1) : streams[k].shape \in shapes}
    IN  IF S = {} THEN 0 ELSE CHOOSE k \in S : \A m \in S : m <= k

\* C18: ClassicFile calls the stages in list order, each with the handle the
\* stage before it returned (the initial one for the first), the size that the
\* last earlier stage returning a triple gave (the initial one if none), the
\* url that the last earlier stage returning a triple or a pair gave (the
\* initial one if none), and the params exactly when the stage takes four
\* arguments; it records one handle for each stage, in order.
C18_ChainConstruction ==
    LET calls == StreamCalls
    IN  /\ Len(calls) = Len(fds)
        /\ Len(fds) <= Len(streams)
        /\ fpc # "init" => Len(fds) = Len(streams)
        /\ \A j \in 1..Len(calls) :
              /\ calls[j].id = j
              /\ calls[j].fd = IF j = 1 THEN NoHandle.id ELSE fds[j - 1].id
              /\ calls[j].size = LET k == LastStage(j, {"triple"})
                                 IN  IF k = 0 THEN NoSize ELSE k
              /\ calls[j].url = LET k == LastStage(j, {"triple", "pair"})
                                IN  IF k = 0 THEN TaskUrl ELSE k
              /\ calls[j].params = (streams[j].argc = 4)
              /\ fds[j] = [id |-> j, close |-> streams[j].close]

C18_Witness ==
    /\ fpc = "open"
    /\ Len(streams) = 3
    /\ streams[1].shape = "triple"
    /\ streams[2].shape = "pair"
    /\ streams[3] = [argc |-> 4, shape |-> "plain", close |-> "ok"]
    /\ Len(StreamCalls) = 3

InitCalls == Where("map_init") \cup Where("reduce_init")

FnCalls == Where("map") \cup Where("reduce")

\* the entries the init hook pulled: the yields inside the init call
InitReads ==
    {i \in Where("yield") :
        \/ i > 1 /\ (i - 1) \in InitCalls
        \/ i > 2 /\ trace[i - 1].op = "status" /\ (i - 2) \in InitCalls}

\* C20: the init hook is called once, before the first call of map or reduce; the
\* progress iterator yields the entries of the input once each, in order and
\* numbered from 1, whoever pulls; an entry the init hook pulled is never handed
\* to map or reduce, every other entry goes to map (the one just yielded) or is
\* pulled inside reduce, and the final count includes the entries the init hook
\* pulled.
C20_InitOnceSinglePass ==
    /\ Cardinality(InitCalls) <= 1
    /\ pc \in {"map_done", "reduce_done", "done"} => Cardinality(InitCalls) = 1
    /\ \A i \in FnCalls : \E j \in InitCalls : j < i
    /\ \A i \in InitReads : \A j \in FnCalls : i < j
    /\ Count("yield") <= Len(source)
    /\ \A k \in 1..Count("yield") :
          /\ Events("yield")[k].recs = <<source[k]>>
          /\ Events("yield")[k].n = k
    /\ \A i \in Where("map") :
          /\ (i - 1) \in Where("yield") \ InitReads
          /\ trace[i].n = trace[i - 1].n
    /\ \A i \in Where("yield") \ InitReads :
          IF task.mode = "map"
          THEN \/ i = Len(trace) /\ pc = "map_call"
               \/ i < Len(trace) /\ trace[i + 1].op = "map"
               \/ i < Len(trace) /\ trace[i + 1] = Ev("raise", "map", <<>>, 0)
          ELSE \E j \in Where("reduce") : j < i
    /\ \A d \in Where("status_done") :
          /\ trace[d].n = Len(source)
          /\ Count("yield") = Len(source)

C20_Witness ==
    /\ task.mode = "map"
    /\ self.map_init = "peek"
    /\ Len(source) = MaxInput
    /\ Cardinality(InitReads) = 1
    /\ Count("map") = MaxInput - 1
    /\ Has("status_done")
    /\ pc = "done"

\* the entries the reduce function itself pulled
ReducePulled == Count("yield") - Cardinality(InitReads)

\* C21: the final notification of the progress iterator is sent at most once and
\* only after the iterator was asked for an item beyond the last one: every
\* entry has been yielded before it, and every other notification (periodic, or
\* of an input being opened) precedes it.  A run in which a user function raised,
\* or in which the reduce function returned after an entry without asking for
\* more, has no final notification.
C21_DoneOnlyOnExhaustion ==
    /\ Count("status_done") <= 1
    /\ Has("status_done") => genDone
    /\ \A d \in Where("status_done") :
          /\ YieldsBefore(d) = Len(source)
          /\ \A i \in Where("status") \cup Where("status_input") \cup Where("yield") : i < d
          /\ \A i \in Where("raise") : d < i
    /\ (Has("raise") /\ ~genDone) => ~Has("status_done")
    /\ (task.mode = "reduce" /\ ReduceStops(self.reduce) /\ ReducePulled >= 1) =>
          ~Has("status_done")

C21_Witness ==
    /\ task.mode = "reduce"
    /\ ReduceStops(self.reduce)
    /\ self.status_interval = MaxInterval
    /\ Len(source) = MaxInput
    /\ ReducePulled = 1
    /\ Has("status")
    /\ pc = "done"

C21_RaisedBeforeEnd ==
    /\ task.mode = "map"
    /\ pc = "raised"
    /\ Count("yield") = 2
    /\ Len(source) = MaxInput
    /\ trace[Len(trace)].op = "raise"

C21_DoneLast ==
    /\ Has("status_done")
    /\ Has("status")
    /\ Has("status_input")
    /\ Len(source) = MaxInput
    /\ pc = "done"

====
